---------------------------- MODULE Spec2Model ----------------------------
(***************************************************************************)
(* A model of Ender.py: the serial-port search of Ender.__find_serial_port *)
(* with the check made by Ender.__init__, and the G-code file translation  *)
(* of Ender.print_from_gcode.                                              *)
(*                                                                         *)
(* Text (str) and bytes are sequences of one-character strings; the byte   *)
(* 0xFF, which no UTF-8 text contains, is written "xFF".  An optional      *)
(* value (Python's None or a value) is << >> or << v >>.                   *)
(***************************************************************************)
EXTENDS Integers, Sequences, FiniteSets, TLC

VARIABLES
    platform,       \* sys.platform
    ports,          \* the list comports() returned
    idx,            \* position of `for port in ports` (1-based)
    pc,             \* where __init__ / __find_serial_port stands
    handle,         \* ser: "none", "open", "notopen" or "closed"
    response,       \* the bytes read_all() returned for the current port
    responses,      \* per port: << >> until read, then << bytes >>
    log,            \* the serial I/O done so far: << op, port index >>
    found,          \* what __find_serial_port returned: << >> is None
    serial_port,    \* self._serial_port
    error,          \* the exception that left __init__, "" when none
    content,        \* self.ode_content: the lines readlines() returned
    rapid_feedrate, \* print_from_gcode's rapid_feedrate
    move_feedrate,  \* print_from_gcode's move_feedrate
    scale,          \* print_from_gcode's scale
    lineNo,         \* number of lines of content already processed
    calls,          \* the calls made on the motion sink, in order, each with
                    \* the number of the line that made it
    gerror,         \* the exception that left print_from_gcode, "" when none
    gpc,            \* where print_from_gcode stands
    sink,           \* the calls made on the gscrib builder, in order, but for
                    \* the moves of print_from_gcode, which are in calls
    transport,      \* the builder's serial transport: its state and its port
    warnings,       \* number of warnings logged
    ops             \* the methods the caller has called on the Ender

resolverVars == <<platform, ports, idx, pc, handle, response, responses, log,
                  found, serial_port, error>>
gcodeVars == <<content, rapid_feedrate, move_feedrate, scale, lineNo, calls,
               gerror, gpc>>
sessionVars == <<sink, transport, warnings, ops>>
vars == <<resolverVars, gcodeVars, sessionVars>>

None == << >>
Some(v) == << v >>

-----------------------------------------------------------------------------
(* Text helpers.                                                            *)

\* s[from..] (1-based), empty when from is past the end
Drop(s, from) == SubSeq(s, from, Len(s))

\* str.startswith(prefix)
StartsWith(s, prefix) ==
    /\ Len(s) >= Len(prefix)
    /\ SubSeq(s, 1, Len(prefix)) = prefix

\* `sub in s` for str and for bytes
Contains(sub, s) ==
    \E i \in 1..(Len(s) - Len(sub) + 1) : SubSeq(s, i, i + Len(sub) - 1) = sub


-----------------------------------------------------------------------------
(* The serial-port search: Ender.__find_serial_port and its caller.         *)

\* the most ports comports() lists
MaxPorts == 2

\* the firmware signature looked for in the M115 answer
Signature == <<"M", "a", "r", "l", "i", "n">>

\* the device-name pattern required on Linux
TtyUSB == <<"t", "t", "y", "U", "S", "B">>

Platforms == {"linux", "win32"}

\* port.device values
Devices ==
    { <<"/", "d", "e", "v", "/", "t", "t", "y", "U", "S", "B", "0">>,
      <<"/", "d", "e", "v", "/", "t", "t", "y", "U", "S", "B", "1">>,
      <<"/", "d", "e", "v", "/", "t", "t", "y", "S", "0">>,
      <<"C", "O", "M", "3">> }

\* port.manufacturer values: None, the empty string, a vendor name
Manufacturers == {None, Some(""), Some("FTDI")}

PortInfos == [device : Devices, manufacturer : Manufacturers]

\* what a device may have buffered when read_all() is called
Responses ==
    { << >>,
      <<"o", "k", "\n">>,
      <<"M", "a", "r", "l", "i">>,
      Signature,
      <<"N", "A", "M", "E", ":">> \o Signature \o <<" ", "2", "\n">>,
      <<"xFF", "o", "k">>,
      <<"xFF">> \o Signature }

\* bytes.decode(): None stands for UnicodeDecodeError, else the text
Decode(bytes) ==
    IF \E i \in 1..Len(bytes) : bytes[i] = "xFF"
    THEN None
    ELSE Some([i \in 1..Len(bytes) |-> bytes[i]])

\* line 159-161: the Linux-only device-name filter skips the port
SkippedByPlatform(port) ==
    platform = "linux" /\ ~Contains(TtyUSB, port.device)

\* the manufacturer test the wrong way round: `is None`
SkippedByManufacturerInverted(port) == port.manufacturer = None

\* line 162-163: the manufacturer filter skips the port
SkippedByManufacturer(port) == port.manufacturer # None

\* lists of at most n ports with pairwise different device names
PortLists(n) ==
    { l \in UNION { [1..k -> PortInfos] : k \in 0..n } :
        \A i, j \in 1..Len(l) : i # j => l[i].device # l[j].device }

Logged(op) == Append(log, <<op, idx>>)

\* an exception leaves __find_serial_port and so __init__
Raise(exc) ==
    /\ pc' = "raised"
    /\ error' = exc

\* `continue`, and the end of a loop body: on to the next port
NextPort ==
    /\ idx' = idx + 1
    /\ pc' = "for"

InitResolver ==
    /\ platform \in Platforms
    /\ ports \in PortLists(MaxPorts)
    /\ idx = 1
    /\ pc = "for"
    /\ handle = "none"
    /\ response = << >>
    /\ responses = [i \in 1..Len(ports) |-> None]
    /\ log = << >>
    /\ found = None
    /\ serial_port = None
    /\ error = ""

\* line 158-164: take the next port and apply the two filters; the loop
\* running out is the implicit `return None`
ForPort ==
    /\ pc = "for"
    /\ \/ /\ idx > Len(ports)
          /\ found' = None
          /\ pc' = "returned"
          /\ UNCHANGED idx
       \/ /\ idx <= Len(ports)
          /\ SkippedByPlatform(ports[idx])
          /\ NextPort
          /\ UNCHANGED found
       \/ /\ idx <= Len(ports)
          /\ ~SkippedByPlatform(ports[idx])
          /\ SkippedByManufacturer(ports[idx])
          /\ NextPort
          /\ UNCHANGED found
       \/ /\ idx <= Len(ports)
          /\ ~SkippedByPlatform(ports[idx])
          /\ ~SkippedByManufacturer(ports[idx])
          /\ pc' = "open"
          /\ UNCHANGED <<idx, found>>
    /\ UNCHANGED <<platform, ports, handle, response, responses, log,
                   serial_port, error, gcodeVars, sessionVars>>

\* line 165: serial.Serial(port.device, 115200, timeout=0.5) opens the
\* port, hands back a handle that is not open, or raises SerialException
OpenPort ==
    /\ pc = "open"
    /\ \/ /\ handle' = "open"
          /\ log' = Logged("open")
          /\ pc' = "isOpen"
          /\ UNCHANGED error
       \/ /\ handle' = "notopen"
          /\ pc' = "isOpen"
          /\ UNCHANGED <<log, error>>
       \/ /\ Raise("SerialException")
          /\ UNCHANGED <<handle, log>>
    /\ UNCHANGED <<platform, ports, idx, response, responses, found,
                   serial_port, gcodeVars, sessionVars>>

\* line 166-167: a handle that is not open is skipped
CheckIsOpen ==
    /\ pc = "isOpen"
    /\ \/ /\ handle # "open"
          /\ NextPort
       \/ /\ handle = "open"
          /\ pc' = "write"
          /\ UNCHANGED idx
    /\ UNCHANGED <<platform, ports, handle, response, responses, log, found,
                   serial_port, error, gcodeVars, sessionVars>>

\* line 168: ser.write(b"M115\r\n") writes, or raises SerialException
WriteProbe ==
    /\ pc = "write"
    /\ \/ /\ log' = Logged("write")
          /\ pc' = "sleep"
          /\ UNCHANGED error
       \/ /\ Raise("SerialException")
          /\ UNCHANGED log
    /\ UNCHANGED <<platform, ports, idx, handle, response, responses, found,
                   serial_port, gcodeVars, sessionVars>>

\* line 169: time.sleep(0.5)
Settle ==
    /\ pc = "sleep"
    /\ log' = Logged("sleep")
    /\ pc' = "read"
    /\ UNCHANGED <<platform, ports, idx, handle, response, responses, found,
                   serial_port, error, gcodeVars, sessionVars>>

\* line 170: ser.read_all() returns the buffered bytes, or raises
ReadAll ==
    /\ pc = "read"
    /\ \/ \E r \in Responses :
            /\ response' = r
            /\ responses' = [responses EXCEPT ![idx] = Some(r)]
            /\ log' = Logged("read")
            /\ pc' = "close"
            /\ UNCHANGED error
       \/ /\ Raise("SerialException")
          /\ UNCHANGED <<response, responses, log>>
    /\ UNCHANGED <<platform, ports, idx, handle, found, serial_port,
                   gcodeVars, sessionVars>>

\* line 172 left out: the port is not closed before the check
ClosePortSkipped ==
    /\ pc = "close"
    /\ pc' = "check"
    /\ UNCHANGED <<platform, ports, idx, handle, response, responses, log,
                   found, serial_port, error, gcodeVars, sessionVars>>

\* line 172: ser.close()
ClosePort ==
    /\ pc = "close"
    /\ handle' = "closed"
    /\ log' = Logged("close")
    /\ pc' = "check"
    /\ UNCHANGED <<platform, ports, idx, response, responses, found,
                   serial_port, error, gcodeVars, sessionVars>>

\* line 173-175: `"Marlin" in response.decode()`; decode() may raise
CheckSignature ==
    /\ pc = "check"
    /\ \/ /\ Decode(response) = None
          /\ Raise("UnicodeDecodeError")
          /\ UNCHANGED <<idx, found>>
       \/ /\ Decode(response) # None
          /\ Contains(Signature, Decode(response)[1])
          /\ found' = Some(ports[idx].device)
          /\ pc' = "returned"
          /\ UNCHANGED <<idx, error>>
       \/ /\ Decode(response) # None
          /\ ~Contains(Signature, Decode(response)[1])
          /\ NextPort
          /\ UNCHANGED <<found, error>>
    /\ UNCHANGED <<platform, ports, handle, response, responses, log,
                   serial_port, gcodeVars, sessionVars>>

\* line 27-29 without the raise: __init__ goes on with no port
CheckFoundNoRaise ==
    /\ pc = "returned"
    /\ serial_port' = found
    /\ pc' = "session"
    /\ UNCHANGED <<platform, ports, idx, handle, response, responses, log,
                   found, error, gcodeVars, sessionVars>>

\* line 27-29: __init__ keeps the port found, or raises RuntimeError
CheckFound ==
    /\ pc = "returned"
    /\ serial_port' = found
    /\ \/ /\ found = None
          /\ Raise("RuntimeError")
       \/ /\ found # None
          /\ pc' = "session"
          /\ UNCHANGED error
    /\ UNCHANGED <<platform, ports, idx, handle, response, responses, log,
                   found, gcodeVars, sessionVars>>

\* the builder before super().__init__ has run
InitSession ==
    /\ sink = << >>
    /\ transport = [state |-> "none", port |-> None]
    /\ warnings = 0
    /\ ops = << >>

\* a call on the builder
Call(op, arg) == [op |-> op, arg |-> arg]

\* a statement of __init__ after the port search: the call it makes on the
\* builder, and the statement that follows
Configure(at, call, next) ==
    /\ pc = at
    /\ sink' = Append(sink, call)
    /\ pc' = next
    /\ UNCHANGED <<platform, ports, idx, handle, response, responses, log,
                   found, serial_port, error, gcodeVars, warnings, ops>>

\* line 30-34: super().__init__(self, direct_write='serial',
\* port=self._serial_port, baudrate=115200): the builder's transport is on
\* that port
SuperInit ==
    /\ Configure("session", Call("__init__", <<"serial", serial_port, 115200>>),
                 "bed")
    /\ transport' = [state |-> "open", port |-> serial_port]

\* line 36
SetBoundsBed ==
    /\ Configure("bed", Call("set_bounds", <<"bed-temperature", 0, 100>>),
                 "feed")
    /\ UNCHANGED transport

\* line 37
SetBoundsFeed ==
    /\ Configure("feed", Call("set_bounds", <<"feed-rate", 50, 7000>>), "axes")
    /\ UNCHANGED transport

\* line 38
SetBoundsAxes ==
    /\ Configure("axes",
                 Call("set_bounds", <<"axes", <<0, 0, 0>>, <<235, 235, 90>>>>),
                 "length")
    /\ UNCHANGED transport

\* line 40
SetLengthUnits ==
    /\ Configure("length", Call("set_length_units", <<"mm">>), "time")
    /\ UNCHANGED transport

\* line 41
SetTimeUnits ==
    /\ Configure("time", Call("set_time_units", <<"s">>), "mode")
    /\ UNCHANGED transport

\* line 42 after line 54: absolute mode is set after the first raw line
WriteM203BeforeMode ==
    /\ pc = "m203"
    /\ sink' = SubSeq(sink, 1, Len(sink) - 1)
                \o << Call("write", <<"M203 X5000 Y5000 Z10.0">>),
                      sink[Len(sink)] >>
    /\ pc' = "m204"
    /\ UNCHANGED <<platform, ports, idx, handle, response, responses, log,
                   found, serial_port, error, gcodeVars, warnings, ops,
                   transport>>

\* line 42
AbsoluteMode ==
    /\ Configure("mode", Call("absolute_mode", << >>), "m203")
    /\ UNCHANGED transport

\* line 54
WriteM203 ==
    /\ Configure("m203", Call("write", <<"M203 X5000 Y5000 Z10.0">>), "m204")
    /\ UNCHANGED transport

\* line 55: the last statement of __init__; the Ender is ready for use
WriteM204 ==
    /\ Configure("m204", Call("write", <<"M204 P1000 T1000">>), "ready")
    /\ UNCHANGED transport

\* line 30-55: the session configuration of __init__
NextConfigure ==
    \/ SuperInit
    \/ SetBoundsBed
    \/ SetBoundsFeed
    \/ SetBoundsAxes
    \/ SetLengthUnits
    \/ SetTimeUnits
    \/ AbsoluteMode
    \/ WriteM203
    \/ WriteM204

\* what __init__ has called on the builder when it returns
Configuration(port) ==
    << Call("__init__", <<"serial", port, 115200>>),
       Call("set_bounds", <<"bed-temperature", 0, 100>>),
       Call("set_bounds", <<"feed-rate", 50, 7000>>),
       Call("set_bounds", <<"axes", <<0, 0, 0>>, <<235, 235, 90>>>>),
       Call("set_length_units", <<"mm">>),
       Call("set_time_units", <<"s">>),
       Call("absolute_mode", << >>),
       Call("write", <<"M203 X5000 Y5000 Z10.0">>),
       Call("write", <<"M204 P1000 T1000">>) >>

NextResolver ==
    \/ ForPort
    \/ OpenPort
    \/ CheckIsOpen
    \/ WriteProbe
    \/ Settle
    \/ ReadAll
    \/ ClosePort
    \/ CheckSignature
    \/ CheckFound
    \/ NextConfigure

-----------------------------------------------------------------------------
(* The G-code translation: Ender.print_from_gcode.                          *)
(* Numerals are decimal integers, so every product with scale is exact.     *)

\* the most lines of a file with several lines
MaxLines == 2

\* the most fields after the kind in a line of a one-line file
MaxFields == 2

RECURSIVE Split(_, _)
\* str.split(sep) for a one-character sep: the pieces between the seps
Split(s, sep) ==
    IF \A i \in 1..Len(s) : s[i] # sep
    THEN << s >>
    ELSE LET i == CHOOSE k \in 1..Len(s) :
                      s[k] = sep /\ \A j \in 1..(k - 1) : s[j] # sep
         IN  << SubSeq(s, 1, i - 1) >> \o Split(Drop(s, i + 1), sep)

Whitespace == {" ", "\n", "\t", "\r"}

RECURSIVE Strip(_)
\* str.strip(): float() ignores whitespace around the numeral
Strip(s) ==
    IF s = << >> THEN s
    ELSE IF s[1] \in Whitespace THEN Strip(Drop(s, 2))
    ELSE IF s[Len(s)] \in Whitespace THEN Strip(SubSeq(s, 1, Len(s) - 1))
    ELSE s

Digits == {"0", "1", "2", "3", "4", "5", "6", "7", "8", "9"}

DigitValue(d) ==
    CASE d = "0" -> 0 [] d = "1" -> 1 [] d = "2" -> 2 [] d = "3" -> 3
      [] d = "4" -> 4 [] d = "5" -> 5 [] d = "6" -> 6 [] d = "7" -> 7
      [] d = "8" -> 8 [] d = "9" -> 9

RECURSIVE DigitsValue(_)
DigitsValue(s) ==
    IF s = << >> THEN 0
    ELSE 10 * DigitsValue(SubSeq(s, 1, Len(s) - 1)) + DigitValue(s[Len(s)])

IsDigits(s) == s # << >> /\ \A i \in 1..Len(s) : s[i] \in Digits

\* float(text): None stands for ValueError, else the number
Float(text) ==
    LET t == Strip(text)
    IN  IF IsDigits(t) THEN Some(DigitsValue(t))
        ELSE IF t # << >> /\ t[1] = "-" /\ IsDigits(Drop(t, 2))
             THEN Some(0 - DigitsValue(Drop(t, 2)))
        ELSE IF t # << >> /\ t[1] = "+" /\ IsDigits(Drop(t, 2))
             THEN Some(DigitsValue(Drop(t, 2)))
        ELSE None

\* coord.split(letter)[1], for a coord that starts with letter
FieldText(coord, letter) == Split(coord, letter)[2]

\* line.split(";")[0].split(" ")
Splits(line) == Split(Split(line, ";")[1], " ")

G0 == <<"G", "0">>
G1 == <<"G", "1">>

\* the locals of one loop body before its fields are read; err is set
\* once float() has raised
Fields(feedrate) ==
    [x |-> None, y |-> None, z |-> None, feedrate |-> feedrate, err |-> FALSE]

\* the axis tests with the `*scale` of Z left out
AxisFieldsZUnscaled(st, coord) ==
    LET fx == Float(FieldText(coord, "X"))
        sx == IF ~StartsWith(coord, <<"X">>) THEN st
              ELSE IF fx = None THEN [st EXCEPT !.err = TRUE]
              ELSE [st EXCEPT !.x = Some(fx[1] * scale)]
        fy == Float(FieldText(coord, "Y"))
        sy == IF sx.err \/ ~StartsWith(coord, <<"Y">>) THEN sx
              ELSE IF fy = None THEN [sx EXCEPT !.err = TRUE]
              ELSE [sx EXCEPT !.y = Some(fy[1] * scale)]
        fz == Float(FieldText(coord, "Z"))
    IN  IF sy.err \/ ~StartsWith(coord, <<"Z">>) THEN sy
        ELSE IF fz = None THEN [sy EXCEPT !.err = TRUE]
        ELSE [sy EXCEPT !.z = Some(fz[1])]

\* line 121-126 and 141-146: the X, Y and Z tests on one token
AxisFields(st, coord) ==
    LET fx == Float(FieldText(coord, "X"))
        sx == IF ~StartsWith(coord, <<"X">>) THEN st
              ELSE IF fx = None THEN [st EXCEPT !.err = TRUE]
              ELSE [st EXCEPT !.x = Some(fx[1] * scale)]
        fy == Float(FieldText(coord, "Y"))
        sy == IF sx.err \/ ~StartsWith(coord, <<"Y">>) THEN sx
              ELSE IF fy = None THEN [sx EXCEPT !.err = TRUE]
              ELSE [sx EXCEPT !.y = Some(fy[1] * scale)]
        fz == Float(FieldText(coord, "Z"))
    IN  IF sy.err \/ ~StartsWith(coord, <<"Z">>) THEN sy
        ELSE IF fz = None THEN [sy EXCEPT !.err = TRUE]
        ELSE [sy EXCEPT !.z = Some(fz[1] * scale)]

\* line 127-128: `if coord.startswith("F") and feedrate is None`
RapidFeedrateField(st, coord) ==
    LET f == Float(FieldText(coord, "F"))
    IN  IF st.err \/ ~(StartsWith(coord, <<"F">>) /\ st.feedrate = None)
        THEN st
        ELSE IF f = None THEN [st EXCEPT !.err = TRUE]
        ELSE [st EXCEPT !.feedrate = Some(f[1])]

\* the F test of the G1 branch without `and move_feedrate is None`
MoveFeedrateFieldAlways(st, coord) ==
    LET f == Float(FieldText(coord, "F"))
    IN  IF st.err \/ ~StartsWith(coord, <<"F">>)
        THEN st
        ELSE IF f = None THEN [st EXCEPT !.err = TRUE]
        ELSE [st EXCEPT !.feedrate = Some(f[1])]

\* line 147-148: `if coord.startswith("F") and move_feedrate is None`
MoveFeedrateField(st, coord) ==
    LET f == Float(FieldText(coord, "F"))
    IN  IF st.err \/ ~(StartsWith(coord, <<"F">>) /\ move_feedrate = None)
        THEN st
        ELSE IF f = None THEN [st EXCEPT !.err = TRUE]
        ELSE [st EXCEPT !.feedrate = Some(f[1])]

RECURSIVE RapidFields(_, _)
\* line 120-128: `for coord in splits[1:]` of the G0 branch
RapidFields(st, coords) ==
    IF coords = << >> \/ st.err THEN st
    ELSE RapidFields(RapidFeedrateField(AxisFields(st, Head(coords)),
                                        Head(coords)),
                     Tail(coords))

RECURSIVE MoveFields(_, _)
\* line 140-148: `for coord in splits[1:]` of the G1 branch
MoveFields(st, coords) ==
    IF coords = << >> \/ st.err THEN st
    ELSE MoveFields(MoveFeedrateField(AxisFields(st, Head(coords)),
                                      Head(coords)),
                    Tail(coords))

\* line 130-133 and 150-153 without the feedrate argument
SinkCallNoFeedrate(kind, st) ==
    [kind |-> kind, x |-> st.x, y |-> st.y, z |-> st.z, F |-> None]

\* line 130-133 and 150-153: the call made on the motion sink; a feedrate
\* of None is not passed
SinkCall(kind, st) ==
    [kind |-> kind, x |-> st.x, y |-> st.y, z |-> st.z, F |-> st.feedrate]

\* line 112-153 with the linear case as the default of the match
LineResultDefaultMove(line) ==
    LET splits == Splits(line)
        rapid == RapidFields(Fields(rapid_feedrate), Tail(splits))
        move == MoveFields(Fields(move_feedrate), Tail(splits))
    IN  IF splits[1] = G0
        THEN [err |-> rapid.err,
              call |-> IF rapid.err THEN None ELSE Some(SinkCall("rapid", rapid))]
        ELSE [err |-> move.err,
              call |-> IF move.err THEN None ELSE Some(SinkCall("move", move))]

\* line 112-153: one pass of the loop body over a line: the locals after
\* the fields are read, and the call made, if any
LineResult(line) ==
    LET splits == Splits(line)
        rapid == RapidFields(Fields(rapid_feedrate), Tail(splits))
        move == MoveFields(Fields(move_feedrate), Tail(splits))
    IN  IF splits[1] = G0
        THEN [err |-> rapid.err,
              call |-> IF rapid.err THEN None ELSE Some(SinkCall("rapid", rapid))]
        ELSE IF splits[1] = G1
        THEN [err |-> move.err,
              call |-> IF move.err THEN None ELSE Some(SinkCall("move", move))]
        ELSE [err |-> FALSE, call |-> None]

RECURSIVE JoinSp(_)
\* the tokens written with one space between them
JoinSp(tokens) ==
    IF tokens = << >> THEN << >>
    ELSE IF Len(tokens) = 1 THEN tokens[1]
    ELSE tokens[1] \o <<" ">> \o JoinSp(Tail(tokens))

\* the field tokens the files are written with
FieldTokens ==
    { <<"X", "1">>, <<"X", "-", "1", "0">>, <<"X", "a">>, <<"X", "1", "X", "2">>,
      <<"Y", "1">>, <<"Y", "2">>, <<"Y", "a">>,
      <<"Z", "1">>, <<"Z", "2">>, <<"Z">>,
      <<"F", "3">>, <<"F", "4">>, <<"F", "a">>,
      <<"E", "5">> }

FieldSeqs(n) == UNION { [1..k -> FieldTokens] : k \in 0..n }

\* how a line of the file ends: at the end of the file, with its line
\* terminator, with a comment
LineEnds == { << >>, <<"\n">>, <<";", "X", "9", "\n">> }

\* the rapid and linear lines of the one-line files
MotionLines ==
    { JoinSp(<<k>> \o fs) \o e :
        k \in {G0, G1}, fs \in FieldSeqs(MaxFields), e \in LineEnds }

\* lines with other whitespace than one space between the tokens
WhitespaceLines ==
    { <<" ", "G", "1", " ", "X", "1", "\n">>,
      <<"\t", "G", "0", " ", "X", "1", "\n">>,
      <<"G", "1", "\t", "X", "1", "\n">>,
      <<"G", "1", " ", " ", "X", "1", "\n">>,
      <<"G", "1", " ", "X", "1", " ", "\n">>,
      <<"G", "1", " ", "X", "1", "\t", "F", "3", "\n">>,
      <<"G", "0", " ", "\n">> }

\* a line with numbers of several digits
LongLines ==
    { <<"G", "1", " ", "X", "1", "0", " ", "Y", "2", "0", " ", "F", "3", "0", "0">>,
      <<"G", "1", " ", "X", "1", "0", " ", "Y", "2", "0", " ", "F", "3", "0", "0", "\n">> }

\* lines of other kinds
OtherLines ==
    { <<"G", "2", "8", "\n">>,
      <<"G", "2", "8", " ", "X", "a", "\n">>,
      <<"M", "1", "0", "4", " ", "F", "3">>,
      <<"\n">>,
      <<";", "G", "1", " ", "X", "1", "\n">> }

\* the lines of the files with several lines
RunLines ==
    { <<"G", "0", " ", "X", "1", "\n">>,
      <<"G", "0", " ", "F", "3", " ", "F", "a", "\n">>,
      <<"G", "1", " ", "X", "2", " ", "F", "3", "\n">>,
      <<"G", "1", " ", "X", "a", "\n">>,
      <<"G", "1", " ", "Y", "1", " ", "F", "a", "\n">>,
      <<"G", "2", "8", "\n">>,
      <<"G", "2", "8", " ", "X", "a", "\n">>,
      <<"G", "1", "\n">>,
      <<"G", "1", " ", "Z", "2">> }

\* what readlines() may return
Files ==
    { << l >> : l \in MotionLines \cup OtherLines \cup WhitespaceLines
                         \cup LongLines }
        \cup UNION { [1..k -> RunLines] : k \in 0..MaxLines }

RapidOverrides == {None, Some(1500)}
MoveOverrides == {None, Some(1000)}
Scales == {1, 2}

InitGcode ==
    /\ content = << >>
    /\ rapid_feedrate = None
    /\ move_feedrate = None
    /\ scale = 1
    /\ lineNo = 0
    /\ calls = << >>
    /\ gerror = ""
    /\ gpc = "idle"

\* line 102-109: the arguments are bound and the file is read
ReadLines ==
    /\ gpc = "idle"
    /\ content' \in Files
    /\ rapid_feedrate' \in RapidOverrides
    /\ move_feedrate' \in MoveOverrides
    /\ scale' \in Scales
    /\ gpc' = "for"
    /\ UNCHANGED <<lineNo, calls, gerror, resolverVars, sessionVars>>

\* line 110-153 with the calls queued in front of the earlier ones
ProcessLineQueuedInFront ==
    /\ gpc = "for"
    /\ lineNo < Len(content)
    /\ lineNo' = lineNo + 1
    /\ LET r == LineResult(content[lineNo + 1])
       IN  \/ /\ r.err
              /\ gerror' = "ValueError"
              /\ gpc' = "raised"
              /\ UNCHANGED calls
           \/ /\ ~r.err
              /\ r.call = None
              /\ UNCHANGED <<calls, gerror, gpc>>
           \/ /\ ~r.err
              /\ r.call # None
              /\ calls' = << [line |-> lineNo + 1, call |-> r.call[1]] >> \o calls
              /\ UNCHANGED <<gerror, gpc>>
    /\ UNCHANGED <<content, rapid_feedrate, move_feedrate, scale,
                   resolverVars, sessionVars>>

\* line 110-153: one pass of `for line in self.ode_content`; a ValueError
\* of float() leaves print_from_gcode
ProcessLine ==
    /\ gpc = "for"
    /\ lineNo < Len(content)
    /\ lineNo' = lineNo + 1
    /\ LET r == LineResult(content[lineNo + 1])
       IN  \/ /\ r.err
              /\ gerror' = "ValueError"
              /\ gpc' = "raised"
              /\ UNCHANGED calls
           \/ /\ ~r.err
              /\ r.call = None
              /\ UNCHANGED <<calls, gerror, gpc>>
           \/ /\ ~r.err
              /\ r.call # None
              /\ calls' = Append(calls, [line |-> lineNo + 1, call |-> r.call[1]])
              /\ UNCHANGED <<gerror, gpc>>
    /\ UNCHANGED <<content, rapid_feedrate, move_feedrate, scale,
                   resolverVars, sessionVars>>

\* line 110: the loop runs out and print_from_gcode returns
EndOfFile ==
    /\ gpc = "for"
    /\ lineNo = Len(content)
    /\ gpc' = "done"
    /\ UNCHANGED <<content, rapid_feedrate, move_feedrate, scale, lineNo,
                   calls, gerror, resolverVars, sessionVars>>

NextGcode ==
    \/ ReadLines
    \/ ProcessLine
    \/ EndOfFile

-----------------------------------------------------------------------------
(* The other methods of an Ender, called on it once __init__ has returned.   *)

\* how many methods a caller calls
MaxOps == 3

\* the coord_num arguments: 1..9 and one number on each side
CoordNums == 0..10

\* a method call of the caller
Op(name, n, flag) == [name |-> name, n |-> n, flag |-> flag]

\* line 64-82: the match of use_workpiece_coordinate_system, for 1..9
GcodeCmdOffByOne(coord_num) ==
    CASE coord_num = 1 -> "G54"
      [] coord_num = 2 -> "G55"
      [] coord_num = 3 -> "G56"
      [] coord_num = 4 -> "G57"
      [] coord_num = 5 -> "G58"
      [] coord_num = 6 -> "G59"
      [] coord_num = 7 -> "G59"
      [] coord_num = 8 -> "G59.1"
      [] coord_num = 9 -> "G59.2"

GcodeCmd(coord_num) ==
    CASE coord_num = 1 -> "G54"
      [] coord_num = 2 -> "G55"
      [] coord_num = 3 -> "G56"
      [] coord_num = 4 -> "G57"
      [] coord_num = 5 -> "G58"
      [] coord_num = 6 -> "G59"
      [] coord_num = 7 -> "G59.1"
      [] coord_num = 8 -> "G59.2"
      [] coord_num = 9 -> "G59.3"

\* a method may be called: the Ender is constructed
Callable ==
    /\ pc = "ready"
    /\ Len(ops) < MaxOps

\* line 57-83: use_workpiece_coordinate_system(coord_num, zero_coords)
UseWorkpieceCoordinateSystem ==
    \E coord_num \in CoordNums, zero_coords \in BOOLEAN :
        /\ Callable
        /\ ops' = Append(ops, Op("use_workpiece_coordinate_system", coord_num,
                                 zero_coords))
        /\ IF ~(1 <= coord_num /\ coord_num <= 9)
           THEN /\ warnings' = warnings + 1
                /\ UNCHANGED sink
           ELSE /\ sink' = Append(sink, Call("write", <<GcodeCmd(coord_num)>>))
                             \o (IF zero_coords
                                 THEN << Call("set_axis", <<0, 0>>) >>
                                 ELSE << >>)
                /\ UNCHANGED warnings
        /\ UNCHANGED <<transport, resolverVars, gcodeVars>>

\* line 85-86: use_machine_coordinate_system()
UseMachineCoordinateSystem ==
    /\ Callable
    /\ ops' = Append(ops, Op("use_machine_coordinate_system", 0, FALSE))
    /\ sink' = Append(sink, Call("write", <<"G53">>))
    /\ UNCHANGED <<transport, warnings, resolverVars, gcodeVars>>

\* line 88-94: get_position(), the calls it makes on the builder
GetPosition ==
    /\ Callable
    /\ ops' = Append(ops, Op("get_position", 0, FALSE))
    /\ sink' = sink \o << Call("get_writer", << >>),
                          Call("query", <<"position">>) >>
    /\ UNCHANGED <<transport, warnings, resolverVars, gcodeVars>>

\* line 96-100: print(disconnect); teardown() leaves the builder's transport
\* closed, flush() leaves it as it is
PrintWith(disconnect) ==
    /\ Callable
    /\ ops' = Append(ops, Op("print", 0, disconnect))
    /\ IF disconnect
       THEN /\ sink' = Append(sink, Call("teardown", << >>))
            /\ transport' = [transport EXCEPT !.state = "closed"]
       ELSE /\ sink' = Append(sink, Call("flush", << >>))
            /\ UNCHANGED transport
    /\ UNCHANGED <<warnings, resolverVars, gcodeVars>>

\* print is an operator of TLC, hence the name
PrintCall == \E disconnect \in BOOLEAN : PrintWith(disconnect)

\* line 130-133, 150-153: a move of the session, self.rapid or self.move
Move ==
    \E kind \in {"rapid", "move"} :
        /\ Callable
        /\ ops' = Append(ops, Op(kind, 0, FALSE))
        /\ sink' = Append(sink, Call(kind, << >>))
        /\ UNCHANGED <<transport, warnings, resolverVars, gcodeVars>>

NextUse ==
    \/ NextConfigure
    \/ UseWorkpieceCoordinateSystem
    \/ UseMachineCoordinateSystem
    \/ GetPosition
    \/ PrintCall
    \/ Move

\* an Ender whose port search has returned /dev/ttyUSB0
Resolved ==
    /\ platform = "linux"
    /\ ports = << [device |-> <<"/", "d", "e", "v", "/", "t", "t", "y", "U",
                               "S", "B", "0">>,
                   manufacturer |-> None] >>
    /\ idx = 1
    /\ pc = "session"
    /\ handle = "closed"
    /\ response = Signature
    /\ responses = << Some(Signature) >>
    /\ log = << <<"open", 1>>, <<"write", 1>>, <<"sleep", 1>>, <<"read", 1>>,
                <<"close", 1>> >>
    /\ found = Some(ports[1].device)
    /\ serial_port = found
    /\ error = ""

\* an Ender whose construction found /dev/ttyUSB0 and has returned
Constructed ==
    /\ platform = "linux"
    /\ ports = << [device |-> <<"/", "d", "e", "v", "/", "t", "t", "y", "U",
                               "S", "B", "0">>,
                   manufacturer |-> None] >>
    /\ idx = 1
    /\ pc = "ready"
    /\ handle = "closed"
    /\ response = Signature
    /\ responses = << Some(Signature) >>
    /\ log = << <<"open", 1>>, <<"write", 1>>, <<"sleep", 1>>, <<"read", 1>>,
                <<"close", 1>> >>
    /\ found = Some(ports[1].device)
    /\ serial_port = found
    /\ error = ""
    /\ sink = Configuration(serial_port)
    /\ transport = [state |-> "open", port |-> serial_port]
    /\ warnings = 0
    /\ ops = << >>

-----------------------------------------------------------------------------
(* The specifications.                                                      *)

\* the construction of an Ender, up to the port it keeps
InitConstruction == InitResolver /\ InitGcode /\ InitSession

SpecResolver == InitConstruction /\ [][NextResolver]_vars

\* print_from_gcode on a constructed Ender
InitPrint == Constructed /\ InitGcode

SpecGcode == InitPrint /\ [][NextGcode]_vars

\* the session of an Ender: the configuration of __init__ and the methods
\* called afterwards
InitUse == Resolved /\ InitGcode /\ InitSession

SpecSession == InitUse /\ [][NextUse]_vars

-----------------------------------------------------------------------------
(* Vocabulary of the port-search properties.                                *)

PortIds == 1..Len(ports)

\* the statements of __init__ after the port search
ConfigurePcs ==
    {"session", "bed", "feed", "axes", "length", "time", "mode", "m203",
     "m204", "ready"}

\* how often op was done on port i
Count(op, i) == Cardinality({ k \in DOMAIN log : log[k] = <<op, i>> })

\* some serial I/O was done on port i
Touched(i) == \E k \in DOMAIN log : log[k][2] = i

\* __init__ is past the port search: it went on, or an exception left it
Ended == pc \in ConfigurePcs \cup {"raised"}

PassesFilters(i) ==
    /\ ~(platform = "linux" /\ ~Contains(TtyUSB, ports[i].device))
    /\ ports[i].manufacturer = None

\* the bytes read from port i hold the signature
SignatureInBytes(i) ==
    responses[i] # None /\ Contains(Signature, responses[i][1])

\* the bytes read from port i are text that holds the signature
SignatureInText(i) ==
    /\ responses[i] # None
    /\ \A k \in 1..Len(responses[i][1]) : responses[i][1][k] # "xFF"
    /\ Contains(Signature, responses[i][1])

\* the signature test on port i is over
Checked(i) ==
    \/ idx > i
    \/ /\ idx = i
       /\ pc \notin {"for", "open", "isOpen", "write", "sleep", "read", "close",
                     "check"}

NonEmptyManufacturer(i) ==
    ports[i].manufacturer # None /\ ports[i].manufacturer # Some("")

-----------------------------------------------------------------------------
(* The port-search properties.                                              *)

\* C1: the port search returns the device of the first port, in the order
\* of the list, that passes the filters and whose answer holds the
\* signature: once the signature test on that port is over, its device is
\* what the search returned, and no later port is ever opened, written to
\* or read from.
C1_FirstMatchReturned ==
    \A i \in PortIds :
        (PassesFilters(i) /\ SignatureInBytes(i)) =>
            /\ \A j \in PortIds : j > i => ~Touched(j)
            /\ Checked(i) =>
                 /\ pc \in {"returned"} \cup ConfigurePcs
                 /\ found = Some(ports[i].device)

\* What the code does keep of C1: the same with "the answer is text that
\* holds the signature"; an answer that is no text ends the search (C5).
FirstTextMatchReturned ==
    /\ \A i \in PortIds :
         SignatureInText(i) =>
           /\ PassesFilters(i)
           /\ \A j \in 1..(i - 1) : ~SignatureInText(j)
           /\ \A j \in PortIds : j > i => ~Touched(j)
           /\ Checked(i) =>
                /\ pc \in {"returned"} \cup ConfigurePcs
                /\ found = Some(ports[i].device)
    /\ pc \in {"returned"} \cup ConfigurePcs /\ found # None =>
         \E i \in PortIds : SignatureInText(i) /\ found = Some(ports[i].device)
    /\ pc \in ConfigurePcs => serial_port = found

\* C2: when no answer read holds the signature, the construction ends
\* with RuntimeError (PortNotFound), never with a device, and every port
\* that passes the filters has been probed.
C2_NoMatchPortNotFound ==
    (Ended /\ \A i \in PortIds : ~SignatureInBytes(i)) =>
        /\ error = "RuntimeError"
        /\ serial_port = None
        /\ \A i \in PortIds : PassesFilters(i) => Count("write", i) = 1

\* C3: when the port search has ended, by a match, by PortNotFound or by
\* an exception, every port that was opened was opened once and closed
\* once, and no handle is open.
C3_EveryProbeClosed ==
    Ended =>
        /\ handle # "open"
        /\ \A i \in PortIds :
             Count("open", i) <= 1 /\ Count("close", i) = Count("open", i)

\* C4: a port that cannot be opened does not end the port search: neither
\* a handle that is not open nor a failing open makes the construction
\* fail at that port.
C4_OpenFailureSkipped ==
    \A i \in PortIds :
        (idx = i /\ Count("open", i) = 0) => pc # "raised"

\* C5: bytes that are no text are a non-match: the decode failure never
\* leaves the port search.
C5_DecodeFailureSwallowed ==
    error # "UnicodeDecodeError"

\* C6: a port whose manufacturer field is non-empty is never probed: it
\* is never opened, written to, read from or closed.
C6_ManufacturerNeverProbed ==
    \A i \in PortIds : NonEmptyManufacturer(i) => ~Touched(i)

\* C6's case: the search went past a port with a manufacturer that the
\* platform filter lets through, and probed another port
C6_Witness ==
    \E i, j \in PortIds :
        /\ NonEmptyManufacturer(i)
        /\ ~(platform = "linux" /\ ~Contains(TtyUSB, ports[i].device))
        /\ idx > i
        /\ j > i
        /\ Count("write", j) = 1

-----------------------------------------------------------------------------
(* Vocabulary of the translation properties.                                *)

\* the fields of a line that start with letter, in the order of the line
FieldsOf(line, letter) ==
    SelectSeq(Tail(Splits(line)), LAMBDA t : t # << >> /\ t[1] = letter)

\* the text after the letter of a field is a number
WellFormed(t) == Float(Drop(t, 2)) # None

\* the number a well-formed field holds
Value(t) == Float(Drop(t, 2))[1]

IsRapidLine(line) == Splits(line)[1] = G0
IsLinearLine(line) == Splits(line)[1] = G1

\* the policy's override for the move kind of a line
Override(line) == IF IsRapidLine(line) THEN rapid_feedrate ELSE move_feedrate

Letters == {"X", "Y", "Z", "F"}

\* what a call carries for a letter
Carried(c, letter) ==
    CASE letter = "X" -> c.x
      [] letter = "Y" -> c.y
      [] letter = "Z" -> c.z
      [] letter = "F" -> c.F

\* the factor applied to the number of a field
Factor(letter) == IF letter = "F" THEN 1 ELSE scale

-----------------------------------------------------------------------------
(* The translation properties.                                              *)

\* C7: a rapid or linear line holding a field letter X, Y, Z or F followed
\* by text that is not a number ends the translation with ValueError
\* (ParseError): it is the last line processed, and the only calls made
\* are those of the lines before it.
C7_MalformedFieldAborts ==
    \A k \in 1..lineNo :
        ( /\ IsRapidLine(content[k]) \/ IsLinearLine(content[k])
          /\ \E l \in Letters : \E n \in DOMAIN FieldsOf(content[k], l) :
               ~WellFormed(FieldsOf(content[k], l)[n]) )
        => /\ gerror = "ValueError"
           /\ lineNo = k
           /\ \A j \in DOMAIN calls : calls[j].line < k

\* C8: the feedrate of a call is the override for the move kind of its
\* line when the policy has one; else the number of an F field of the
\* line when the line has one; else the call carries no feedrate.  A rapid
\* line makes a rapid call and a linear line a move call, so each override
\* reaches only its own kind.
C8_FeedrateResolution ==
    \A j \in DOMAIN calls :
        LET line == content[calls[j].line]
            c == calls[j].call
            fs == FieldsOf(line, "F")
        IN  /\ IsRapidLine(line) \/ IsLinearLine(line)
            /\ c.kind = (IF IsRapidLine(line) THEN "rapid" ELSE "move")
            /\ Override(line) # None => c.F = Override(line)
            /\ Override(line) = None /\ fs # << >> =>
                 \E n \in DOMAIN fs : WellFormed(fs[n]) /\ c.F = Some(Value(fs[n]))
            /\ Override(line) = None /\ fs = << >> => c.F = None

\* C8's case: a rapid line with an F field translated under a rapid
\* override and no move override
C8_Witness ==
    \E j \in DOMAIN calls :
        /\ IsRapidLine(content[calls[j].line])
        /\ FieldsOf(content[calls[j].line], "F") # << >>
        /\ rapid_feedrate # None
        /\ move_feedrate = None
        /\ calls[j].call.F = rapid_feedrate

\* C9: each of x, y, z of a call is the number of a field of its line with
\* that letter multiplied by scale, an axis without a field in the line is
\* absent from the call, and a feedrate taken from the line is the number
\* of an F field, not multiplied by scale.
C9_ScaledAxes ==
    \A j \in DOMAIN calls : \A l \in Letters :
        LET line == content[calls[j].line]
            c == calls[j].call
            fs == FieldsOf(line, l)
        IN  /\ (l # "F" /\ fs = << >>) => Carried(c, l) = None
            /\ (l # "F" /\ fs # << >>) => Carried(c, l) # None
            /\ ( /\ fs # << >>
                 /\ l = "F" => Override(line) = None
                 /\ \A n \in DOMAIN fs : WellFormed(fs[n]) )
               => \E n \in DOMAIN fs :
                    Carried(c, l) = Some(Value(fs[n]) * Factor(l))

\* C9's case: a call made under scale 2 from a line with an X and an F
\* field and no Y field
C9_Witness ==
    \E j \in DOMAIN calls :
        /\ scale = 2
        /\ Override(content[calls[j].line]) = None
        /\ FieldsOf(content[calls[j].line], "X") # << >>
        /\ FieldsOf(content[calls[j].line], "F") # << >>
        /\ FieldsOf(content[calls[j].line], "Y") = << >>
        /\ calls[j].call.y = None

\* C10: when a line holds a field letter more than once, the call carries
\* the number of the last field with that letter (for F: when the policy
\* has no override for the move kind).
C10_LastOccurrenceWins ==
    \A j \in DOMAIN calls : \A l \in Letters :
        LET line == content[calls[j].line]
            c == calls[j].call
            fs == FieldsOf(line, l)
        IN  ( /\ Len(fs) >= 2
              /\ l = "F" => Override(line) = None
              /\ \A n \in DOMAIN fs : WellFormed(fs[n]) )
            => Carried(c, l) = Some(Value(fs[Len(fs)]) * Factor(l))

-----------------------------------------------------------------------------
(* Vocabulary of the properties about the lines of a file.                   *)

RECURSIVE Words(_)
\* the tokens of a text: its parts between whitespace of any kind and amount
Words(s) ==
    IF s = << >> THEN << >>
    ELSE IF s[1] \in Whitespace THEN Words(Tail(s))
    ELSE LET ends == { i \in 1..Len(s) : s[i] \in Whitespace }
             n == IF ends = {} THEN Len(s) + 1
                  ELSE CHOOSE i \in ends : \A e \in ends : i <= e
         IN  << SubSeq(s, 1, n - 1) >> \o Words(Drop(s, n))

\* a line without its comment
Statement(line) == Split(line, ";")[1]

\* the line holds a rapid or linear kind and nothing else
KindOnly(line) == Words(Statement(line)) \in { <<G0>>, <<G1>> }

\* the first token of the line is neither the rapid nor the linear marker
OtherKind(line) ==
    LET w == Words(Statement(line))
    IN  w = << >> \/ w[1] \notin {G0, G1}

\* the calls made for line k
CallsOf(k) == { j \in DOMAIN calls : calls[j].line = k }

\* the translation ended with an error at line k
FailedAt(k) == gerror # "" /\ lineNo = k

-----------------------------------------------------------------------------
(* The properties about the lines of a file.                                 *)

\* C11: a line holding only the rapid or linear kind, followed or not by its
\* line terminator or a comment, makes exactly one call of its kind, with x,
\* y and z absent and the feedrate of the policy alone; it is neither
\* skipped nor an error.
C11_KindOnlyLineEmits ==
    \A k \in 1..lineNo :
        KindOnly(content[k]) =>
            LET kind == Words(Statement(content[k]))[1]
            IN  /\ ~FailedAt(k)
                /\ Cardinality(CallsOf(k)) = 1
                /\ \A j \in CallsOf(k) :
                     calls[j].call =
                        [kind |-> IF kind = G0 THEN "rapid" ELSE "move",
                         x |-> None, y |-> None, z |-> None,
                         F |-> IF kind = G0 THEN rapid_feedrate
                               ELSE move_feedrate]

\* C12: a line whose kind is neither the rapid nor the linear marker (G28,
\* an empty line, a line that is only a comment) makes no call and no error,
\* whatever follows the kind, and the translation goes on after it.
C12_OtherKindIgnored ==
    \A k \in 1..lineNo :
        OtherKind(content[k]) =>
            /\ CallsOf(k) = {}
            /\ ~FailedAt(k)
            /\ lineNo = k => gpc \in {"for", "done"}

\* a line of another kind with a malformed field after the kind was passed
\* over, and the line after it made its call
C12_Witness ==
    \E k \in 1..lineNo :
        /\ OtherKind(content[k])
        /\ Len(Words(Statement(content[k]))) > 1
        /\ \E l \in Letters : \E n \in DOMAIN FieldsOf(content[k], l) :
             ~WellFormed(FieldsOf(content[k], l)[n])
        /\ CallsOf(k) = {}
        /\ CallsOf(k + 1) # {}

\* C13: the calls are made in the order of the lines: each line makes at
\* most one call, rapid for a rapid line and move for a linear line, and
\* makes it before the next line is processed.
C13_CallsInFileOrder ==
    /\ \A j \in DOMAIN calls :
         /\ calls[j].line \in 1..lineNo
         /\ IsRapidLine(content[calls[j].line]) => calls[j].call.kind = "rapid"
         /\ IsLinearLine(content[calls[j].line]) => calls[j].call.kind = "move"
    /\ \A i, j \in DOMAIN calls : i < j => calls[i].line < calls[j].line
    /\ \A k \in 1..lineNo :
         /\ Cardinality(CallsOf(k)) <= 1
         /\ (IsRapidLine(content[k]) \/ IsLinearLine(content[k])) /\ ~FailedAt(k)
              => CallsOf(k) # {}

\* a rapid line and then a linear line have made their calls
C13_Witness ==
    /\ Len(calls) = 2
    /\ lineNo = 2
    /\ calls[1].line = 1 /\ calls[1].call.kind = "rapid"
    /\ calls[2].line = 2 /\ calls[2].call.kind = "move"

\* C14: a line makes the call (or the error, or no call) of the same line
\* written with single spaces between its tokens and no whitespace before
\* the first or after the last: leading whitespace, several spaces or a tab
\* between tokens and trailing whitespace change nothing.
C14_AnyWhitespaceSeparates ==
    \A k \in 1..lineNo :
        LET r == LineResult(JoinSp(Words(Statement(content[k]))))
        IN  /\ r.err <=> FailedAt(k)
            /\ r.call = None <=> CallsOf(k) = {}
            /\ \A j \in CallsOf(k) : r.call = Some(calls[j].call)

\* the line of the example, translated to its end with scale 2 and no
\* override
ExampleTranslated ==
    /\ content \in { << l >> : l \in LongLines }
    /\ scale = 2
    /\ rapid_feedrate = None
    /\ move_feedrate = None
    /\ gpc = "done"

\* C17 as stated: the line G1 X10 Y20 F300 with scale 2 and no override
\* makes exactly one move call with x = 20, y = 20 and feedrate 300, z
\* absent.
C17_ExampleAsStated ==
    ExampleTranslated =>
        calls = << [line |-> 1,
                    call |-> [kind |-> "move", x |-> Some(20), y |-> Some(20),
                              z |-> None, F |-> Some(300)]] >>

\* C17: the line G1 X10 Y20 F300 with scale 2 and no override makes
\* exactly one move call with x = 20, y = 40 and feedrate 300, z absent.
C17_ExampleScaled ==
    ExampleTranslated =>
        calls = << [line |-> 1,
                    call |-> [kind |-> "move", x |-> Some(20), y |-> Some(40),
                              z |-> None, F |-> Some(300)]] >>

C17_Witness ==
    /\ ExampleTranslated
    /\ content = << <<"G", "1", " ", "X", "1", "0", " ", "Y", "2", "0", " ",
                      "F", "3", "0", "0">> >>
    /\ Len(calls) = 1

-----------------------------------------------------------------------------
(* The session properties.                                                   *)

\* the calls that configure a session, in the order of C15
ConfigurationOrder ==
    << Call("set_bounds", <<"bed-temperature", 0, 100>>),
       Call("set_bounds", <<"feed-rate", 50, 7000>>),
       Call("set_bounds", <<"axes", <<0, 0, 0>>, <<235, 235, 90>>>>),
       Call("set_length_units", <<"mm">>),
       Call("set_time_units", <<"s">>),
       Call("absolute_mode", << >>),
       Call("write", <<"M203 X5000 Y5000 Z10.0">>),
       Call("write", <<"M204 P1000 T1000">>) >>

\* the calls on the builder after the one that creates it
Applied == Tail(sink)

\* a call that configures: a bound, a unit, the mode or a tuning line
Configures(c) ==
    \/ c.op \in {"__init__", "set_bounds", "set_length_units",
                 "set_time_units", "absolute_mode"}
    \/ c \in { ConfigurationOrder[n] : n \in {7, 8} }

\* C15: creating a session applies the configuration once and in this
\* order: the bounds of bed-temperature [0,100], feed-rate [50,7000] and
\* axes [(0,0,0),(235,235,90)], the length unit mm, the time unit s,
\* absolute mode, the two raw tuning lines; no method is called on the
\* session, and no move made, before all of them are applied.
C15_ConfigurationOnceInOrder ==
    sink # << >> =>
        /\ \A n \in DOMAIN Applied :
             IF n <= Len(ConfigurationOrder)
             THEN Applied[n] = ConfigurationOrder[n]
             ELSE ~Configures(Applied[n])
        /\ \A n \in DOMAIN Applied :
             Applied[n].op \in {"rapid", "move"} => n > Len(ConfigurationOrder)
        /\ ops # << >> \/ calls # << >> \/ gpc # "idle" =>
             Len(Applied) >= Len(ConfigurationOrder)

\* a configured session has made a move
C15_Witness ==
    /\ pc = "ready"
    /\ Len(Applied) = Len(ConfigurationOrder) + 1
    /\ Applied[Len(Applied)].op = "move"

\* the selector codes of C16
SelectorCodes ==
    << "G54", "G55", "G56", "G57", "G58", "G59", "G59.1", "G59.2", "G59.3" >>

\* the last method called
LastOp == ops[Len(ops)]

Called(op) == Cardinality({ n \in DOMAIN sink : sink[n].op = op })

\* how often print was called with the disconnect flag as given
Finalized(disconnect) ==
    Cardinality({ n \in DOMAIN ops : ops[n] = Op("print", 0, disconnect) })

\* C18: print with the disconnect flag set tears the transport down, print
\* with the flag cleared only flushes and leaves the transport open on its
\* port, so that later moves are made on the same transport; the transport
\* of a session is torn down once and no more.
C18_TornDownOnce ==
    /\ Called("flush") = Finalized(FALSE)
    /\ Finalized(TRUE) > 0 <=> Called("teardown") > 0
    /\ Finalized(TRUE) > 0 <=> transport.state = "closed"
    /\ pc = "ready" /\ Finalized(TRUE) = 0 =>
         transport = [state |-> "open", port |-> serial_port]
    /\ Called("teardown") <= 1

-----------------------------------------------------------------------------
(* The properties of the port search and the session together.              *)

\* port i has been opened and not closed
IsOpen(i) == Count("open", i) > Count("close", i)

\* the steps of a probe, in the order of C19
ProbeOrder == << "open", "write", "sleep", "read", "close" >>

\* what was done on port i, in order
ProbeOf(i) == SelectSeq(log, LAMBDA e : e[2] = i)

\* C19: at most one port is open in every state; what is done on a port is
\* open, write of the query, settle wait, read, close, in this order and
\* each once, and the check of the signature comes after the close; a port
\* is opened only after the port before it is closed.
C19_ProbesSerialized ==
    /\ Cardinality({ i \in PortIds : IsOpen(i) }) <= 1
    /\ \A i \in PortIds :
         /\ Len(ProbeOf(i)) <= Len(ProbeOrder)
         /\ \A n \in DOMAIN ProbeOf(i) : ProbeOf(i)[n][1] = ProbeOrder[n]
    /\ \A n \in 1..(Len(log) - 1) :
         /\ log[n][2] <= log[n + 1][2]
         /\ log[n + 1][1] = "open" =>
              /\ log[n][1] = "close"
              /\ log[n][2] < log[n + 1][2]
    /\ pc = "check" => log # << >> /\ log[Len(log)] = <<"close", idx>>
    /\ found # None => log # << >> /\ log[Len(log)][1] = "close"

\* the first port was probed and closed, and the second is open
C19_Witness ==
    /\ Count("close", 1) = 1
    /\ IsOpen(2)
    /\ pc = "read"

\* C20: when the port search finds no port, or fails, __init__ fails before
\* the builder is created on a transport and before any bound, unit, mode
\* or raw line; when it finds a port, the builder is created on the device
\* of that port, a port whose answer holds the signature.
C20_SessionOnResolvedPort ==
    /\ found = None \/ error # "" =>
         /\ sink = << >>
         /\ transport = [state |-> "none", port |-> None]
         /\ pc \notin ConfigurePcs
    /\ pc = "raised" => error # ""
    /\ sink # << >> =>
         /\ found # None
         /\ serial_port = found
         /\ sink[1].op = "__init__"
         /\ sink[1].arg[2] = found
         /\ transport = [state |-> "open", port |-> found]
         /\ \E i \in PortIds :
              /\ ports[i].device = found[1]
              /\ Checked(i)
              /\ SignatureInText(i)
    /\ pc \in ConfigurePcs \ {"session"} => sink # << >>

\* the session is on the second of two different ports
C20_Witness ==
    /\ pc = "ready"
    /\ Len(ports) = 2
    /\ ports[1].device # ports[2].device
    /\ transport = [state |-> "open", port |-> Some(ports[2].device)]

=============================================================================
